---- MODULE Spec2Model ----
(***************************************************************************)
(* A model of ascii-renderer (src/src/main.rs, src/src/vector2.rs): the    *)
(* Renderer (camera, frame buffer, scene), the two Drawable shapes and the *)
(* control flow of main.                                                   *)
(*                                                                         *)
(* Numbers.  The program computes in f32.  Every coordinate the model      *)
(* draws is a small integer (the camera starts at (0,0) and walks by unit  *)
(* vectors, shapes sit on integer coordinates), and f32 addition,          *)
(* subtraction and multiplication are exact on integers below 2^24, so     *)
(* Int arithmetic gives the values the program computes.  The one          *)
(* irrational step, sqrt in Circle::point_in_self, is compared against an  *)
(* integer radius: sqrt(d) <= r exactly when d <= r*r for integers d, r in *)
(* this range (sqrt is correctly rounded and monotone).  Viewports of      *)
(* 2^24 cells or more, where index_f32 itself would round, are out of the  *)
(* model's range.                                                          *)
(***************************************************************************)
EXTENDS Integers, Sequences, FiniteSets

VARIABLES
    pc,             \* where the caller is: see Spec and MainSpec below
    options,        \* Renderer.options: [viewport_width, viewport_height]
    position,       \* Renderer.position: Vector2 <<x, y>>
    buffer,         \* Renderer.buffer: Vec<char>, index i of the code is buffer[i+1]
    drawables,      \* Renderer.drawables: Vec<&dyn Drawable>
    draw_result,    \* what the last call of draw returned: "none", "Ok" or "Err"
    raw_mode,       \* the terminal is in raw mode
    disable_called, \* disable_raw_mode has been called
    result,         \* what main returned: "running", "Ok" or "Err"
    rendered        \* history: render() has returned since the camera or the
                    \* scene last changed, so the buffer is its output for them

vars == <<pc, options, position, buffer, drawables, draw_result, raw_mode,
          disable_called, result, rendered>>

(***************************************************************************)
(* Bounds of the model.                                                    *)
(***************************************************************************)
MaxWidth == 2       \* viewport_width ranges over 0..MaxWidth
MaxHeight == 2      \* viewport_height ranges over 0..MaxHeight
MaxCam == 1         \* the camera stays within -MaxCam..MaxCam on both axes
MaxShapes == 2      \* at most MaxShapes drawables are added
MaxCols == 5        \* size() reports 0..MaxCols terminal columns
MaxRows == 2        \* size() reports 0..MaxRows terminal rows

(***************************************************************************)
(* vector2.rs                                                              *)
(***************************************************************************)
ZERO == <<0, 0>>
UP == <<0, 1>>
DOWN == <<0, -1>>
LEFT == <<-1, 0>>
RIGHT == <<1, 0>>

Directions == {UP, DOWN, LEFT, RIGHT}

\* impl Mul<f32> for Vector2<f32>
Vector2_mul(v, rhs) == <<v[1] * rhs, v[2] * rhs>>

\* impl AddAssign<Vector2<f32>> for Vector2<f32>: the value of self afterwards
Vector2_add_assign(v, rhs) == <<v[1] + rhs[1], v[2] + rhs[2]>>

(***************************************************************************)
(* Shapes: struct Rect, struct Circle, trait Drawable.                     *)
(***************************************************************************)
Rect(p, w, h) == [kind |-> "Rect", position |-> p, width |-> w, height |-> h]
Circle(p, r) == [kind |-> "Circle", position |-> p, radius |-> r]

\* A Rect::point_in_self with closed ranges (a..=b): not the program's
Rect_point_in_self_closed(self, point) ==
    LET max_x == self.position[1] + self.width
        max_y == self.position[2] + self.height
    IN  /\ self.position[1] <= point[1] /\ point[1] <= max_x
        /\ self.position[2] <= point[2] /\ point[2] <= max_y

\* Rect::point_in_self: two half-open ranges (a..b).contains(&v) is a <= v < b
Rect_point_in_self(self, point) ==
    LET max_x == self.position[1] + self.width
        max_y == self.position[2] + self.height
    IN  /\ self.position[1] <= point[1] /\ point[1] < max_x
        /\ self.position[2] <= point[2] /\ point[2] < max_y

\* Rect::bbox
Rect_bbox(self) == self

\* Circle::point_in_self: sqrt(x_diff^2 + y_diff^2) <= radius
Circle_point_in_self(self, point) ==
    LET x_diff == point[1] - self.position[1]
        y_diff == point[2] - self.position[2]
    IN  (x_diff * x_diff) + (y_diff * y_diff) <= self.radius * self.radius

\* Circle::bbox
Circle_bbox(self) ==
    Rect(self.position, self.radius * 2, self.radius * 2)

\* dyn Drawable dispatch
point_in_self(shape, point) ==
    IF shape.kind = "Rect" THEN Rect_point_in_self(shape, point)
    ELSE Circle_point_in_self(shape, point)

bbox(shape) ==
    IF shape.kind = "Rect" THEN Rect_bbox(shape) ELSE Circle_bbox(shape)

(***************************************************************************)
(* struct Renderer.  The operators below read the fields of self from the  *)
(* variables options, position, buffer and drawables.                      *)
(***************************************************************************)
\* vec![' '; n]
blank(n) == [i \in 1..n |-> " "]

\* Renderer::new: the fields of the value it returns
Renderer_new(opts) ==
    [buffer |-> blank(opts.viewport_width * opts.viewport_height),
     position |-> <<0, 0>>,
     drawables |-> <<>>,
     options |-> opts]

\* Renderer::bbox: the camera's own rectangle
Renderer_bbox ==
    Rect(position, options.viewport_width, options.viewport_height)

\* Renderer::collides_with_rect
collides_with_rect(rect) ==
    LET self_left == position[1]
        self_right == self_left + options.viewport_width
        self_top == position[2]
        self_bottom == self_top + options.viewport_height
        rect_left == rect.position[1]
        rect_right == rect_left + rect.width
        rect_top == rect.position[2]
        rect_bottom == rect_top + rect.height
    IN  /\ self_left < rect_right
        /\ rect_left < self_right
        /\ rect_top > self_bottom
        /\ self_top > rect_bottom

\* Renderer::walk: the value of self.position afterwards
walk(direction, distance) ==
    Vector2_add_assign(position, Vector2_mul(direction, distance))

\* Renderer::add_drawable: the value of self.drawables afterwards
add_drawable(drawable) == Append(drawables, drawable)

\* Renderer::local_pixels: x is the outer loop, y the inner one
local_pixels ==
    LET w == options.viewport_width
        h == options.viewport_height
    IN  [k \in 1..(w * h) |-> <<(k - 1) \div h, (k - 1) % h>>]

\* A global_position_of without the vertical flip: not the program's
global_position_of_unflipped(point) ==
    <<position[1] + point[1], position[2] + point[2]>>

\* Renderer::global_position_of
global_position_of(point) ==
    <<position[1] + point[1], position[2] - point[2]>>

\* A column-major index_f32: not the program's
index_f32_column_major(point) ==
    LET v == point[2] + (point[1] * options.viewport_width)
    IN  IF v < 0 THEN 0 ELSE v

\* Renderer::index_f32: the cast "as usize" saturates a negative value to 0
index_f32(point) ==
    LET v == point[1] + (point[2] * options.viewport_width)
    IN  IF v < 0 THEN 0 ELSE v

\* Renderer::lines: the while loop, from index i with `strings` collected so far
RECURSIVE lines_loop(_, _)
lines_loop(strings, i) ==
    IF i < options.viewport_width * options.viewport_height
    THEN lines_loop(Append(strings,
                           SubSeq(buffer, i + 1, i + options.viewport_width)),
                    i + options.viewport_width)
    ELSE strings

\* Renderer::lines
lines == lines_loop(<<>>, 0)

\* Renderer::render, lines 191-197: the shapes whose bbox collides with the camera
shapes_to_check ==
    SelectSeq(drawables, LAMBDA shape : collides_with_rect(bbox(shape)))

\* A pixel loop over the culled shapes_to_check: not the program's
render_loop_shapes_culled == shapes_to_check

\* Renderer::render, line 201: the shapes the pixel loop tests
render_loop_shapes == drawables

\* Renderer::render, lines 200-208: the indices the pixel loop writes '#' to:
\* index_f32 of every local pixel whose global position some shape of the
\* loop contains
render_writes ==
    LET pixels == local_pixels
        shapes == render_loop_shapes
    IN  {index_f32(pixels[k]) :
            k \in {j \in 1..Len(pixels) :
                    \E i \in 1..Len(shapes) :
                        point_in_self(shapes[i], global_position_of(pixels[j]))}}

\* Renderer::render: buffer.fill(' '), then the pixel loop.  Every write
\* stores the same character, so the buffer afterwards does not depend on
\* the order of the writes; a write at an index out of the Vec's bounds
\* panics.
render ==
    LET writes == render_writes
    IN  [buffer |-> [i \in 1..Len(buffer) |->
                        IF (i - 1) \in writes THEN "#" ELSE " "],
         panicked |-> \E index \in writes : index >= Len(buffer)]

\* Renderer::draw, lines 239-247: the row printed for one line.  The String
\* is created with capacity 2 * viewport_width; a line's characters are
\* '#' and ' ', one byte each.
RECURSIVE draw_out(_, _, _)
draw_out(out, line, k) ==
    LET capacity == options.viewport_width * 2
    IN  IF k > Len(line) \/ Len(out) + 2 > capacity THEN out
        ELSE draw_out(out \o <<line[k], " ">>, line, k + 1)

\* Renderer::draw: the outcomes of one call, each [printed, result]: the rows
\* the terminal was sent and what draw returns.  The terminal is not part of
\* the program; every execute! on it may fail, and draw then returns the
\* error at once: at Clear or MoveTo (no row sent), or at the Print or
\* MoveToNextLine of a row (the rows before it sent, and the row itself or
\* not).
draw ==
    LET rows == [y \in 1..Len(lines) |-> draw_out(<<>>, lines[y], 1)]
    IN  {[printed |-> SubSeq(rows, 1, j), result |-> "Err"] : j \in 0..Len(rows)}
        \cup {[printed |-> rows, result |-> "Ok"]}

(***************************************************************************)
(* The inputs the specifications draw.                                     *)
(***************************************************************************)
\* The shapes a caller may add: two Rects and two Circles on integer
\* coordinates around the origin, overlapping one another and lying partly
\* inside and partly outside the viewports the camera can reach.
Shapes ==
    {Rect(<<0, 0>>, 2, 2), Rect(<<-1, -2>>, 2, 1),
     Circle(<<0, 0>>, 1), Circle(<<1, -1>>, 2)}

InCamRange(p) ==
    /\ -MaxCam <= p[1] /\ p[1] <= MaxCam
    /\ -MaxCam <= p[2] /\ p[2] <= MaxCam

(***************************************************************************)
(* Spec: a caller that constructs one Renderer and then calls its methods  *)
(* in any order.  pc is "new" before Renderer::new has returned, "api"     *)
(* afterwards and "panic" once a call has panicked.                        *)
(***************************************************************************)
Init ==
    /\ pc = "new"
    /\ options = [viewport_width |-> 0, viewport_height |-> 0]
    /\ position = <<0, 0>>
    /\ buffer = <<>>
    /\ drawables = <<>>
    /\ draw_result = "none"
    /\ raw_mode = FALSE
    /\ disable_called = FALSE
    /\ result = "running"
    /\ rendered = FALSE

\* Renderer::new(RendererOptions { viewport_width, viewport_height })
New(viewport_width, viewport_height) ==
    /\ pc = "new"
    /\ LET r == Renderer_new([viewport_width |-> viewport_width,
                              viewport_height |-> viewport_height])
       IN  /\ options' = r.options
           /\ position' = r.position
           /\ buffer' = r.buffer
           /\ drawables' = r.drawables
    /\ pc' = "api"
    /\ rendered' = FALSE
    /\ UNCHANGED <<draw_result, raw_mode, disable_called, result>>

\* renderer.walk(direction, distance)
Walk(direction, distance) ==
    /\ pc = "api"
    /\ InCamRange(walk(direction, distance))
    /\ position' = walk(direction, distance)
    /\ rendered' = FALSE
    /\ UNCHANGED <<pc, options, buffer, drawables, draw_result, raw_mode,
                   disable_called, result>>

\* renderer.add_drawable(&shape)
AddDrawable(shape) ==
    /\ pc = "api"
    /\ Len(drawables) < MaxShapes
    /\ drawables' = add_drawable(shape)
    /\ rendered' = FALSE
    /\ UNCHANGED <<pc, options, position, buffer, draw_result, raw_mode,
                   disable_called, result>>

\* renderer.render()
Render ==
    /\ pc = "api"
    /\ LET r == render
       IN  /\ buffer' = r.buffer
           /\ pc' = IF r.panicked THEN "panic" ELSE "api"
           /\ rendered' = ~r.panicked
    /\ UNCHANGED <<options, position, drawables, draw_result, raw_mode,
                   disable_called, result>>

\* renderer.draw(), which serialises the buffer with lines()
Draw ==
    /\ pc = "api"
    /\ draw_result' \in {o.result : o \in draw}
    /\ UNCHANGED <<pc, options, position, buffer, drawables, raw_mode,
                   disable_called, result, rendered>>

Next ==
    \/ \E w \in 0..MaxWidth, h \in 0..MaxHeight : New(w, h)
    \/ \E d \in Directions : Walk(d, 1)
    \/ \E shape \in Shapes : AddDrawable(shape)
    \/ Render
    \/ Draw

Spec == Init /\ [][Next]_vars

(***************************************************************************)
(* MainSpec: fn main.  pc names the call main is about to make; "exit"     *)
(* once main has returned.  Every call into the terminal (size,            *)
(* enable_raw_mode, draw, event::poll, event::read, disable_raw_mode) may  *)
(* return an error, which the ? operator returns from main at once.        *)
(***************************************************************************)
MainCircleRadius == 10

\* The key codes event::read can deliver, and an event that is no key event
Events == {"q", "other_char", "Up", "Down", "Left", "Right", "other_key", "not_a_key"}

MainInit ==
    /\ pc = "size"
    /\ options = [viewport_width |-> 0, viewport_height |-> 0]
    /\ position = <<0, 0>>
    /\ buffer = <<>>
    /\ drawables = <<>>
    /\ draw_result = "none"
    /\ raw_mode = FALSE
    /\ disable_called = FALSE
    /\ result = "running"
    /\ rendered = FALSE

\* `?` on an Err: main returns the error
MainReturnErr ==
    /\ pc' = "exit"
    /\ result' = "Err"

\* lines 257-271: size()?, Renderer::new, the two add_drawable calls
MainSetup ==
    /\ pc = "size"
    /\ \/ /\ MainReturnErr
          /\ UNCHANGED <<options, position, buffer, drawables>>
       \/ \E cols \in 0..MaxCols, rows \in 0..MaxRows :
            LET r == Renderer_new([viewport_width |-> cols \div 2,
                                   viewport_height |-> rows])
                camera == Rect(r.position, r.options.viewport_width,
                               r.options.viewport_height)
                circle == Circle(ZERO, MainCircleRadius)
            IN  /\ options' = r.options
                /\ position' = r.position
                /\ buffer' = r.buffer
                /\ drawables' = Append(Append(r.drawables, camera), circle)
                /\ pc' = "enable_raw_mode"
                /\ result' = result
    /\ UNCHANGED <<draw_result, raw_mode, disable_called, rendered>>

\* line 273: enable_raw_mode()?
MainEnableRawMode ==
    /\ pc = "enable_raw_mode"
    /\ \/ MainReturnErr /\ raw_mode' = raw_mode
       \/ raw_mode' = TRUE /\ pc' = "first_render" /\ result' = result
    /\ UNCHANGED <<options, position, buffer, drawables, draw_result,
                   disable_called, rendered>>

\* lines 275 and 293: renderer.render()
MainRender ==
    /\ pc \in {"first_render", "render"}
    /\ LET r == render
       IN  /\ buffer' = r.buffer
           /\ pc' = IF r.panicked THEN "panic"
                    ELSE IF pc = "first_render" THEN "first_draw" ELSE "draw"
           /\ rendered' = ~r.panicked
    /\ UNCHANGED <<options, position, drawables, draw_result, raw_mode,
                   disable_called, result>>

\* lines 276 and 294: renderer.draw()?
MainDraw ==
    /\ pc \in {"first_draw", "draw"}
    /\ \E o \in draw :
        /\ draw_result' = o.result
        /\ IF o.result = "Err" THEN MainReturnErr
           ELSE pc' = "poll" /\ result' = result
    /\ UNCHANGED <<options, position, buffer, drawables, raw_mode,
                   disable_called, rendered>>

\* line 279: event::poll(Duration::from_millis(100))?
MainPoll ==
    /\ pc = "poll"
    /\ \/ MainReturnErr
       \/ pc' = "poll" /\ result' = result      \* Ok(false): the wait timed out
       \/ pc' = "read" /\ result' = result      \* Ok(true)
    /\ UNCHANGED <<options, position, buffer, drawables, draw_result, raw_mode,
                   disable_called, rendered>>

\* lines 280-292: event::read()? and the match on the key code
MainRead ==
    /\ pc = "read"
    /\ \/ MainReturnErr /\ position' = position
       \/ \E event \in Events :
            /\ result' = result
            /\ IF event = "q" THEN pc' = "disable_raw_mode" ELSE pc' = "render"
            /\ position' =
                 CASE event = "Up" -> walk(UP, 1)
                   [] event = "Down" -> walk(DOWN, 1)
                   [] event = "Left" -> walk(LEFT, 1)
                   [] event = "Right" -> walk(RIGHT, 1)
                   [] OTHER -> position
            /\ InCamRange(position')
    /\ rendered' = (rendered /\ position' = position)
    /\ UNCHANGED <<options, buffer, drawables, draw_result, raw_mode,
                   disable_called>>

\* lines 298-300: disable_raw_mode()?; Ok(())
MainDisableRawMode ==
    /\ pc = "disable_raw_mode"
    /\ disable_called' = TRUE
    /\ pc' = "exit"
    /\ \/ result' = "Err" /\ raw_mode' = raw_mode
       \/ result' = "Ok" /\ raw_mode' = FALSE
    /\ UNCHANGED <<options, position, buffer, drawables, draw_result, rendered>>

MainNext ==
    \/ MainSetup
    \/ MainEnableRawMode
    \/ MainRender
    \/ MainDraw
    \/ MainPoll
    \/ MainRead
    \/ MainDisableRawMode

MainSpec == MainInit /\ [][MainNext]_vars

(***************************************************************************)
(* Scenario2Spec: Spec with the viewport of the specification's            *)
(* Scenario 2, 5 by 5.                                                     *)
(***************************************************************************)
Scenario2Next ==
    \/ New(5, 5)
    \/ \E d \in Directions : Walk(d, 1)
    \/ \E shape \in Shapes : AddDrawable(shape)
    \/ Render
    \/ Draw

Scenario2Spec == Init /\ [][Scenario2Next]_vars

(***************************************************************************)
(* Properties.                                                             *)
(***************************************************************************)
\* The local pixels: 0 <= x < viewport_width, 0 <= y < viewport_height
Pixels == (0..(options.viewport_width - 1)) \X (0..(options.viewport_height - 1))

\* The character of local pixel (x, y): buffer[x + y*viewport_width]
Pixel(x, y) == buffer[x + (y * options.viewport_width) + 1]

\* Some shape of drawables contains the world coordinate of local pixel (x, y)
Covered(x, y) ==
    \E i \in 1..Len(drawables) :
        point_in_self(drawables[i], <<position[1] + x, position[2] - y>>)

\* Every local pixel is '#' if a shape contains its world coordinate, else ' '
Rasterized ==
    \A p \in Pixels :
        Pixel(p[1], p[2]) = IF Covered(p[1], p[2]) THEN "#" ELSE " "

\* C1: after render() returns, every local pixel (x, y) is '#' if and only if
\* some shape of drawables contains the world coordinate
\* (position.x + x, position.y - y), and ' ' otherwise, whatever the buffer
\* held before the call.
C1_RenderRasterizes == rendered => Rasterized

\* C1's case: two shapes, a camera that has walked, and a rendered buffer
\* that holds both characters.
C1_Witness ==
    /\ pc = "api"
    /\ rendered
    /\ Len(drawables) = 2
    /\ position # ZERO
    /\ \E p \in Pixels : Pixel(p[1], p[2]) = "#"
    /\ \E p \in Pixels : Pixel(p[1], p[2]) = " "

\* The '#' pixels of the buffer
HashPixels == {p \in Pixels : Pixel(p[1], p[2]) = "#"}

\* The '#' pixels of a rasterization that tests every shape against every
\* local pixel, with no culling
BruteForcePixels == {p \in Pixels : Covered(p[1], p[2])}

\* C2: the '#' pixels render() produces, its culling step included, are the
\* '#' pixels of the brute-force rasterization without culling.
C2_CullingEquivalence == rendered => (HashPixels = BruteForcePixels)

\* C2's case: the culling step drops a shape, and the rendered buffer shows
\* the '#' pixels of the brute-force rasterization all the same.
C2_Witness ==
    /\ pc = "api"
    /\ rendered
    /\ Len(shapes_to_check) < Len(drawables)
    /\ HashPixels # {}

\* Scenario 2: a 5x5 viewport, one Rect at (0,0) of width 2 and height 2, the
\* camera at (0,0)
Scenario2 ==
    /\ options = [viewport_width |-> 5, viewport_height |-> 5]
    /\ drawables = <<Rect(ZERO, 2, 2)>>
    /\ position = ZERO

\* C3 as stated: in Scenario 2, after render() the local pixels (0,0) and
\* (1,1) are '#' and local pixel (2,0) is the background character.
C3_Scenario2AsStated ==
    (Scenario2 /\ rendered) =>
        (Pixel(0, 0) = "#" /\ Pixel(1, 1) = "#" /\ Pixel(2, 0) = " ")

\* C3 as amended: in Scenario 2, after render() local pixel (0,0) is '#' and
\* the local pixels (1,1) and (2,0) are the background character.
C3_Scenario2 ==
    (Scenario2 /\ rendered) =>
        (Pixel(0, 0) = "#" /\ Pixel(1, 1) = " " /\ Pixel(2, 0) = " ")

\* C3's case: Scenario 2, rendered.
C3_Witness ==
    /\ pc = "api"
    /\ Scenario2
    /\ rendered

\* C9: the buffer's length is viewport_width * viewport_height after
\* construction and after every call, and no index render() writes is out of
\* the buffer's bounds (such a write panics).
C9_BufferLength ==
    /\ Len(buffer) = options.viewport_width * options.viewport_height
    /\ pc # "panic"

\* C9's case: a non-empty buffer after add_drawable, walk, render (which wrote
\* a '#') and draw.
C9_Witness ==
    /\ pc = "api"
    /\ Len(buffer) > 1
    /\ drawables # <<>>
    /\ position # ZERO
    /\ draw_result # "none"
    /\ rendered
    /\ HashPixels # {}

\* The viewport has at least one column and one row
NonEmptyViewport ==
    options.viewport_width > 0 /\ options.viewport_height > 0

\* C4: on every path by which main returns after enable_raw_mode has
\* succeeded, disable_raw_mode has been called.  (raw_mode is set only by a
\* successful enable_raw_mode and cleared only by a successful
\* disable_raw_mode.)  Stated for the runs with a non-empty viewport, so that
\* a violation does not rest on a degenerate terminal size.
C4_RawModeReleased ==
    (pc = "exit" /\ raw_mode /\ NonEmptyViewport) => disable_called

\* C5: a draw that returns an error inside the frame loop does not end the
\* loop: main goes on to poll for input.  Stated for the runs with a
\* non-empty viewport.
C5_DrawFailureNonFatal ==
    [][(pc = "draw" /\ NonEmptyViewport /\ draw_result' = "Err")
         => pc' = "poll"]_vars

\* C6: no Renderer with viewport_width = 0 or viewport_height = 0 is ever
\* produced by Renderer::new.
C6_ZeroViewportRejected ==
    pc = "api" => (options.viewport_width > 0 /\ options.viewport_height > 0)

\* The integer points within distance r of c on both axes
Around(c, r) == ((c[1] - r)..(c[1] + r)) \X ((c[2] - r)..(c[2] + r))

\* C7: the bbox of every Circle (center c, radius r) has position
\* (c.x - r, c.y - r), width 2r and height 2r, and contains every point at
\* distance less than r from c that the Circle contains.
C7_CircleBboxCentered ==
    \A i \in 1..Len(drawables) :
        LET circle == drawables[i]
            c == circle.position
            r == circle.radius
        IN  circle.kind = "Circle" =>
              /\ bbox(circle) = Rect(<<c[1] - r, c[2] - r>>, 2 * r, 2 * r)
              /\ \A p \in Around(c, r) :
                    ( /\ point_in_self(circle, p)
                      /\ ((p[1] - c[1]) * (p[1] - c[1]))
                           + ((p[2] - c[2]) * (p[2] - c[2])) < r * r )
                    => Rect_point_in_self(bbox(circle), p)

\* C8: lines() returns viewport_height strings of viewport_width characters
\* each, row 0 first, and lines()[y][x] = buffer[x + y*viewport_width] for
\* every local pixel (x, y).
C8_LinesShape ==
    pc = "api" =>
        /\ Len(lines) = options.viewport_height
        /\ \A y \in 1..Len(lines) : Len(lines[y]) = options.viewport_width
        /\ \A p \in Pixels : lines[p[2] + 1][p[1] + 1] = Pixel(p[1], p[2])

\* The standard overlap test of two axis-aligned rectangles given by their
\* minimum corner and size
StandardOverlap(a, b) ==
    /\ a.position[1] < b.position[1] + b.width
    /\ b.position[1] < a.position[1] + a.width
    /\ a.position[2] < b.position[2] + b.height
    /\ b.position[2] < a.position[2] + a.height

\* C10: for every camera position and every rect of positive size that
\* render() passes to it, collides_with_rect(rect) is the standard overlap
\* test of the camera rectangle and rect.  Stated for a camera rectangle of
\* positive size.
C10_CollidesIsStandardOverlap ==
    NonEmptyViewport =>
        \A i \in 1..Len(drawables) :
            collides_with_rect(bbox(drawables[i]))
                <=> StandardOverlap(Renderer_bbox, bbox(drawables[i]))

====
